---- MODULE Spec2Model ----
(***************************************************************************)
(* Tourist anomaly detection service (ai-service/anomaly.py, api.py,       *)
(* data_sim.py): the rule-based detectors, the pattern-model lifecycle,    *)
(* the single-point path and the per-tourist history kept by the API.      *)
(*                                                                         *)
(* Numbers.  Coordinates are integers in micro-degrees (12.9716 deg is     *)
(* 12971600).  Distances are integers in decimetres.  A timestamp string   *)
(* 'YYYY-MM-DD?HH:MM:SS' is the record [date, sep, time]: the day number,  *)
(* the separator character ("T" or " ") and the second of the day.  A      *)
(* confidence, a float quotient in the code, is the exact fraction         *)
(* [num, den].                                                             *)
(***************************************************************************)
EXTENDS Integers, Sequences, FiniteSets, TLC

VARIABLES
    tourist_history,  \* api.py: tourist_id -> list of stored points (a dict: absent keys are outside DOMAIN)
    response,         \* the JSON response of the last check_anomaly request
    accepted,         \* history variable: per tourist, every point stored so far, in arrival order
    reported,         \* history variable: per tourist, the stop records returned by earlier requests
    nreq,             \* number of requests handled so far
    request,          \* the body of the last check_anomaly request
    ml_model,         \* detector.ml_model
    scaler,           \* detector.scaler
    trained,          \* history variable: some train_ml_model call has returned normally
    df,               \* the table (DataFrame) the detector is called on
    result,           \* the detector call of the last operation: its name, arguments and return value
    sim,              \* data_sim.py: the generator's loop position and clock
    threads,          \* the request handlers that run concurrently: position and local variables
    list_id           \* per tourist, the identity of the list object held by tourist_history

vars == <<tourist_history, response, accepted, reported, nreq, request, ml_model, scaler, trained, df, result, sim, threads, list_id>>

serviceVars == <<tourist_history, response, accepted, reported, nreq, request>>

detectorVars == <<ml_model, scaler, trained>>

threadVars == <<threads, list_id>>

(***************************************************************************)
(* Detector configuration: TouristAnomalyDetector.__init__                 *)
(***************************************************************************)
stop_threshold_minutes == 5

deviation_threshold_meters == 200

planned_route ==
    << <<12971600, 77594600>>,
       <<12972600, 77595600>>,
       <<12973600, 77596600>>,
       <<12974600, 77597600>>,
       <<12975600, 77598600>> >>

\* The `distance < 10` of detect_stop_anomaly, in metres.
StopRadiusMeters == 10

\* min(..., 2.0) and min(..., 3.0): the caps of the two confidences.
StopConfidenceCap == 2

DeviationConfidenceCap == 3

\* `abs(...) < 60` of check_single_point, in seconds.
CurrentPointWindow == 60

\* tourist_history[tourist_id][-100:]
HistoryCap == 100

(***************************************************************************)
(* Arithmetic helpers                                                      *)
(***************************************************************************)
Abs(x) == IF x < 0 THEN 0 - x ELSE x

Min2(a, b) == IF a <= b THEN a ELSE b

\* the integer square root of n by Newton's iteration from x, x * x >= n
RECURSIVE ISqrtFrom(_, _)
ISqrtFrom(n, x) ==
    IF x = 0 THEN 0
    ELSE LET y == (x + n \div x) \div 2
         IN  IF y >= x THEN x ELSE ISqrtFrom(n, y)

Last(s) == s[Len(s)]

Front(s) == SubSeq(s, 1, Len(s) - 1)

(***************************************************************************)
(* haversine_distance, in decimetres (rounded down).  Within a few         *)
(* kilometres of the planned route the great-circle distance is the        *)
(* planar one with 0.111195 m per micro-degree of latitude and 0.108357 m  *)
(* per micro-degree of longitude (cos of the route's latitude); the two    *)
(* differ by less than 2 dm on every point used below.                     *)
(***************************************************************************)
DmPer100kMicroLat == 111195

DmPer100kMicroLon == 108357

haversine_distance(lat1, lon1, lat2, lon2) ==
    LET dy == (Abs(lat2 - lat1) * DmPer100kMicroLat) \div 100000
        dx == (Abs(lon2 - lon1) * DmPer100kMicroLon) \div 100000
    IN  ISqrtFrom(dy * dy + dx * dx, dy + dx)

(***************************************************************************)
(* Timestamps.  sort_values('timestamp') orders the strings, character by  *)
(* character: the date first, then the separator (' ' is 0x20, 'T' is      *)
(* 0x54), then the zero-padded time.  pd.to_datetime reads both layouts as *)
(* the same instant.                                                       *)
(***************************************************************************)
SepRank(sep) == IF sep = " " THEN 0 ELSE 1

StrLess(a, b) ==
    \/ a.date < b.date
    \/ a.date = b.date /\ SepRank(a.sep) < SepRank(b.sep)
    \/ a.date = b.date /\ a.sep = b.sep /\ a.time < b.time

to_datetime(ts) == ts.date * 86400 + ts.time

\* (mutant) the filter on the tourist is missing
RowsOf_NoFilter(table, tourist_id) == table

\* df[df['tourist_id'] == tourist_id]
RowsOf(table, tourist_id) == SelectSeq(table, LAMBDA r : r.tourist_id = tourist_id)

\* sort_values('timestamp'): rows with equal strings keep their order
RECURSIVE InsertSorted(_, _)
InsertSorted(sorted, row) ==
    IF sorted = <<>> \/ ~StrLess(row.timestamp, Last(sorted).timestamp)
    THEN Append(sorted, row)
    ELSE Append(InsertSorted(Front(sorted), row), Last(sorted))

RECURSIVE SortFrom(_, _, _)
SortFrom(table, i, acc) ==
    IF i > Len(table) THEN acc ELSE SortFrom(table, i + 1, InsertSorted(acc, table[i]))

sort_values(table) == SortFrom(table, 1, <<>>)

\* df['tourist_id'].unique(): the ids in order of first appearance
RECURSIVE UniqueFrom(_, _, _)
UniqueFrom(table, i, acc) ==
    IF i > Len(table) THEN acc
    ELSE IF \E k \in 1..Len(acc) : acc[k] = table[i].tourist_id
         THEN UniqueFrom(table, i + 1, acc)
         ELSE UniqueFrom(table, i + 1, Append(acc, table[i].tourist_id))

unique_ids(table) == UniqueFrom(table, 1, <<>>)

(***************************************************************************)
(* detect_stop_anomaly                                                     *)
(***************************************************************************)
\* time_diff: (current - prev).total_seconds(), kept in seconds (the code divides by 60)
TimeDiff(prev_row, current_row) ==
    to_datetime(current_row.timestamp) - to_datetime(prev_row.timestamp)

\* (mutant) `distance <= 10`
IsStop_Inclusive(distance, time_diff) ==
    distance <= StopRadiusMeters * 10 /\ time_diff >= stop_threshold_minutes * 60

\* `distance < 10 and time_diff >= self.stop_threshold_minutes`
IsStop(distance, time_diff) ==
    distance < StopRadiusMeters * 10 /\ time_diff >= stop_threshold_minutes * 60

\* min(time_diff / self.stop_threshold_minutes, 2.0), time_diff in seconds
StopConfidence(time_diff) ==
    [num |-> Min2(time_diff, StopConfidenceCap * stop_threshold_minutes * 60),
     den |-> stop_threshold_minutes * 60]

\* f'Stopped for {time_diff:.1f} minutes': the minutes in tenths
StopDetails(time_diff) ==
    [text |-> "Stopped for", value |-> (time_diff * 10 + 30) \div 60]

StopRecord(tourist_id, current_row, time_diff) ==
    [tourist_id   |-> tourist_id,
     timestamp    |-> current_row.timestamp,
     lat          |-> current_row.lat,
     lon          |-> current_row.lon,
     anomaly_type |-> "stopped_too_long",
     details      |-> StopDetails(time_diff),
     confidence   |-> StopConfidence(time_diff)]

RECURSIVE StopLoop(_, _, _, _)
StopLoop(tourist_data, tourist_id, i, anomalies) ==
    IF i > Len(tourist_data) THEN anomalies
    ELSE LET current_row == tourist_data[i]
             prev_row    == tourist_data[i - 1]
             distance    == haversine_distance(prev_row.lat, prev_row.lon,
                                               current_row.lat, current_row.lon)
             time_diff   == TimeDiff(prev_row, current_row)
         IN  StopLoop(tourist_data, tourist_id, i + 1,
                      IF IsStop(distance, time_diff)
                      THEN Append(anomalies, StopRecord(tourist_id, current_row, time_diff))
                      ELSE anomalies)

detect_stop_anomaly(table, tourist_id) ==
    LET tourist_data == sort_values(RowsOf(table, tourist_id))
    IN  IF Len(tourist_data) < 2 THEN <<>>
        ELSE StopLoop(tourist_data, tourist_id, 2, <<>>)

(***************************************************************************)
(* detect_route_deviation                                                  *)
(***************************************************************************)
\* float('inf'): above every distance of the model
Infinity == 1000000

\* (mutant) only the start point of each segment is measured, so the last
\* waypoint never is
RECURSIVE RouteLoop_StartOnly(_, _, _, _)
RouteLoop_StartOnly(lat, lon, i, min_distance) ==
    IF i > Len(planned_route) - 1 THEN min_distance
    ELSE LET start_point == planned_route[i]
             dist_start  == haversine_distance(lat, lon, start_point[1], start_point[2])
         IN  RouteLoop_StartOnly(lat, lon, i + 1, Min2(min_distance, dist_start))

\* the loop over the segments of the planned route: the distance to each
\* segment's start point and end point
RECURSIVE RouteLoop(_, _, _, _)
RouteLoop(lat, lon, i, min_distance) ==
    IF i > Len(planned_route) - 1 THEN min_distance
    ELSE LET start_point == planned_route[i]
             end_point   == planned_route[i + 1]
             dist_start  == haversine_distance(lat, lon, start_point[1], start_point[2])
             dist_end    == haversine_distance(lat, lon, end_point[1], end_point[2])
         IN  RouteLoop(lat, lon, i + 1, Min2(min_distance, Min2(dist_start, dist_end)))

\* (mutant) the largest of the distances, max for min
RECURSIVE RouteLoop_Farthest(_, _, _, _)
RouteLoop_Farthest(lat, lon, i, max_distance) ==
    IF i > Len(planned_route) THEN max_distance
    ELSE LET d == haversine_distance(lat, lon, planned_route[i][1], planned_route[i][2])
         IN  RouteLoop_Farthest(lat, lon, i + 1, IF d > max_distance THEN d ELSE max_distance)

MinRouteDistance_Farthest(lat, lon) == RouteLoop_Farthest(lat, lon, 1, 0)

MinRouteDistance(lat, lon) == RouteLoop(lat, lon, 1, Infinity)

\* `min_distance > self.deviation_threshold_meters`
IsDeviation(min_distance) == min_distance > deviation_threshold_meters * 10

\* min(min_distance / self.deviation_threshold_meters, 3.0)
DeviationConfidence(min_distance) ==
    [num |-> Min2(min_distance, DeviationConfidenceCap * deviation_threshold_meters * 10),
     den |-> deviation_threshold_meters * 10]

\* f'Deviated {min_distance:.0f}m from planned route': whole metres
DeviationDetails(min_distance) ==
    [text |-> "Deviated from planned route", value |-> (min_distance + 5) \div 10]

DeviationRecord(tourist_id, row, min_distance) ==
    [tourist_id   |-> tourist_id,
     timestamp    |-> row.timestamp,
     lat          |-> row.lat,
     lon          |-> row.lon,
     anomaly_type |-> "route_deviation",
     details      |-> DeviationDetails(min_distance),
     confidence   |-> DeviationConfidence(min_distance)]

RECURSIVE DeviationLoop(_, _, _, _)
DeviationLoop(tourist_data, tourist_id, i, anomalies) ==
    IF i > Len(tourist_data) THEN anomalies
    ELSE LET row          == tourist_data[i]
             min_distance == MinRouteDistance(row.lat, row.lon)
         IN  DeviationLoop(tourist_data, tourist_id, i + 1,
                           IF IsDeviation(min_distance)
                           THEN Append(anomalies, DeviationRecord(tourist_id, row, min_distance))
                           ELSE anomalies)

detect_route_deviation(table, tourist_id) ==
    DeviationLoop(RowsOf(table, tourist_id), tourist_id, 1, <<>>)

(***************************************************************************)
(* check_single_point.  historical_data is [is_none, rows]: None, or the   *)
(* DataFrame built from the stored list.                                   *)
(***************************************************************************)
NoHistory == [is_none |-> TRUE, rows |-> <<>>]

HistoryOf(rows) == [is_none |-> FALSE, rows |-> rows]

CurrentPoint(tourist_id, lat, lon, timestamp) ==
    [tourist_id   |-> tourist_id,
     lat          |-> lat,
     lon          |-> lon,
     timestamp    |-> timestamp,
     is_anomaly   |-> FALSE,
     anomaly_type |-> "unknown"]

\* `abs((current_time - anomaly_time).total_seconds()) < 60`
WithinCurrentWindow(timestamp, anomaly) ==
    Abs(to_datetime(timestamp) - to_datetime(anomaly.timestamp)) < CurrentPointWindow

\* (mutant) the route check runs on the history and the point together
DeviationInput_Combined(current_point, historical_data) ==
    Append(historical_data.rows, current_point)

\* the table the route check of check_single_point runs on
DeviationInput(current_point, historical_data) == <<current_point>>

check_single_point(tourist_id, lat, lon, timestamp, historical_data) ==
    LET current_point       == CurrentPoint(tourist_id, lat, lon, timestamp)
        deviation_anomalies ==
            detect_route_deviation(DeviationInput(current_point, historical_data), tourist_id)
    IN  IF ~historical_data.is_none /\ Len(historical_data.rows) > 0
        THEN LET combined_data  == Append(historical_data.rows, current_point)
                 stop_anomalies == detect_stop_anomaly(combined_data, tourist_id)
             IN  deviation_anomalies
                   \o SelectSeq(stop_anomalies, LAMBDA a : WithinCurrentWindow(timestamp, a))
        ELSE deviation_anomalies

(***************************************************************************)
(* api.py: check_anomaly.  A request is [is_json, missing, tourist_id,     *)
(* lat, lon, timestamp]: `missing` names a required field the body lacks   *)
(* ("none" when it has them all).                                          *)
(***************************************************************************)
ErrorResponse(code, error) == [status |-> "error", code |-> code, error |-> error]

\* datetime.strptime with '%Y-%m-%dT%H:%M:%S', then with '%Y-%m-%d %H:%M:%S'
ValidTimestamp(timestamp) == timestamp.sep = "T" \/ timestamp.sep = " "

\* (mutant) the two strptime attempts are missing: any timestamp passes
Validate_AnyTimestamp(data) ==
    IF ~data.is_json THEN "Request must be JSON"
    ELSE IF data.missing # "none" THEN "Missing required field"
    ELSE IF ~(-90000000 <= data.lat /\ data.lat <= 90000000) THEN "Invalid latitude"
    ELSE IF ~(-180000000 <= data.lon /\ data.lon <= 180000000) THEN "Invalid longitude"
    ELSE "ok"

\* the first reason to answer 400, or "ok"
Validate(data) ==
    IF ~data.is_json THEN "Request must be JSON"
    ELSE IF data.missing # "none" THEN "Missing required field"
    ELSE IF ~(-90000000 <= data.lat /\ data.lat <= 90000000) THEN "Invalid latitude"
    ELSE IF ~(-180000000 <= data.lon /\ data.lon <= 180000000) THEN "Invalid longitude"
    ELSE IF ~ValidTimestamp(data.timestamp) THEN "Invalid timestamp format"
    ELSE "ok"

\* historical_data = pd.DataFrame(tourist_history[tourist_id]) if the id is a key
HistoricalData(history, tourist_id) ==
    IF tourist_id \in DOMAIN history THEN HistoryOf(history[tourist_id]) ELSE NoHistory

StoredPoint(data, anomalies) ==
    [tourist_id   |-> data.tourist_id,
     lat          |-> data.lat,
     lon          |-> data.lon,
     timestamp    |-> data.timestamp,
     is_anomaly   |-> Len(anomalies) > 0,
     anomaly_type |-> IF Len(anomalies) > 0 THEN anomalies[1].anomaly_type ELSE "normal"]

\* (mutant) keeps the first 100 points, [:100], instead of the last
KeepLast_KeepsOldest(points) ==
    IF Len(points) > HistoryCap THEN SubSeq(points, 1, HistoryCap) ELSE points

\* `if len(...) > 100: ... = ...[-100:]`
KeepLast(points) ==
    IF Len(points) > HistoryCap
    THEN SubSeq(points, Len(points) - HistoryCap + 1, Len(points))
    ELSE points

\* (mutant) the point is appended to every stored list, not only the tourist's own
StorePoint_EveryList(history, tourist_id, point) ==
    [t \in DOMAIN history \cup {tourist_id} |->
        KeepLast(Append(IF t \in DOMAIN history THEN history[t] ELSE <<>>, point))]

\* create the list if absent, append, keep the last 100
StorePoint(history, tourist_id, point) ==
    LET before == IF tourist_id \in DOMAIN history THEN history[tourist_id] ELSE <<>>
    IN  [t \in DOMAIN history \cup {tourist_id} |->
            IF t = tourist_id THEN KeepLast(Append(before, point)) ELSE history[t]]

\* round(anomaly['confidence'], 2), in hundredths
Round2(confidence) == (confidence.num * 200 + confidence.den) \div (2 * confidence.den)

ResponseAnomaly(anomaly) ==
    [type       |-> anomaly.anomaly_type,
     reason     |-> anomaly.details,
     confidence |-> Round2(anomaly.confidence)]

OkResponse(data, anomalies) ==
    [status     |-> IF Len(anomalies) > 0 THEN "anomaly" ELSE "normal",
     code       |-> 200,
     tourist_id |-> data.tourist_id,
     timestamp  |-> data.timestamp,
     location   |-> [lat |-> data.lat, lon |-> data.lon],
     anomalies  |-> [i \in 1..Len(anomalies) |-> ResponseAnomaly(anomalies[i])],
     reason     |-> IF Len(anomalies) > 0 THEN anomalies[1].details ELSE [text |-> "", value |-> 0]]

StopsOf(records) == {records[i] : i \in {k \in 1..Len(records) : records[k].anomaly_type = "stopped_too_long"}}

DeviationsOf(records) == SelectSeq(records, LAMBDA a : a.anomaly_type = "route_deviation")

\* no detector call was made
NoResult == [op |-> "none"]

check_anomaly(data) ==
    IF Validate(data) # "ok"
    THEN /\ request' = data
         /\ response' = ErrorResponse(400, Validate(data))
         /\ result' = NoResult
         /\ UNCHANGED <<tourist_history, accepted, reported>>
    ELSE LET historical_data == HistoricalData(tourist_history, data.tourist_id)
             anomalies == check_single_point(data.tourist_id, data.lat, data.lon,
                                             data.timestamp, historical_data)
             point     == StoredPoint(data, anomalies)
         IN  /\ request' = data
             /\ tourist_history' = StorePoint(tourist_history, data.tourist_id, point)
             /\ response' = OkResponse(data, anomalies)
             /\ result' = [op |-> "check_single_point", tourist_id |-> data.tourist_id,
                           query |-> CurrentPoint(data.tourist_id, data.lat, data.lon, data.timestamp),
                           history |-> historical_data, records |-> anomalies]
             /\ accepted' = [accepted EXCEPT ![data.tourist_id] = Append(@, point)]
             /\ reported' = [reported EXCEPT ![data.tourist_id] = @ \cup StopsOf(anomalies)]

(***************************************************************************)
(* The service under requests handled one at a time                        *)
(***************************************************************************)
MaxRequests == 3

Tourists == {1, 2}

\* test_integration.py: the point of test_normal_location (the first waypoint)
\* and the point of test_route_deviation
OnRoute == <<12971600, 77594600>>

OffRoute == <<12980000, 77600000>>

ServicePlaces == {OnRoute, OffRoute}

Stamp(sep, time) == [date |-> 0, sep |-> sep, time |-> time]

\* both accepted layouts; 300 s is the stop threshold, 330 s lies within a minute of it
ServiceStamps == {Stamp("T", 0), Stamp("T", 300), Stamp("T", 330), Stamp(" ", 300)}

Request(tourist_id, place, timestamp) ==
    [is_json |-> TRUE, missing |-> "none", tourist_id |-> tourist_id,
     lat |-> place[1], lon |-> place[2], timestamp |-> timestamp]

ValidRequests ==
    {Request(t, p, ts) : t \in Tourists, p \in ServicePlaces, ts \in ServiceStamps}

InvalidRequests ==
    LET ok == Request(1, OnRoute, Stamp("T", 0))
    IN  {[ok EXCEPT !.is_json = FALSE],
         [ok EXCEPT !.missing = "timestamp"],
         [ok EXCEPT !.lat = 90000001],
         [ok EXCEPT !.lon = -180000001],
         [ok EXCEPT !.timestamp = Stamp("/", 0)]}

NoResponse == [status |-> "none", code |-> 0]

\* no request was received yet
NoRequest == [is_json |-> FALSE, missing |-> "body"]

DetectorInit ==
    /\ ml_model = [state |-> "None"]
    /\ scaler = [fitted |-> FALSE]
    /\ trained = FALSE

ServiceInit ==
    /\ tourist_history = [t \in {} |-> <<>>]
    /\ response = NoResponse
    /\ accepted = [t \in Tourists |-> <<>>]
    /\ reported = [t \in Tourists |-> {}]
    /\ nreq = 0
    /\ request = NoRequest
    /\ threads = <<>>
    /\ list_id = <<>>

Init ==
    /\ ServiceInit
    /\ DetectorInit
    /\ df = <<>>
    /\ result = NoResult
    /\ sim = [i |-> 0]

CheckAnomaly ==
    /\ nreq < MaxRequests
    /\ \E data \in ValidRequests \cup InvalidRequests : check_anomaly(data)
    /\ nreq' = nreq + 1
    /\ UNCHANGED <<detectorVars, df, sim, threadVars>>

Next == CheckAnomaly

Spec == Init /\ [][Next]_vars

(***************************************************************************)
(* A long stream of pings, handled one at a time: tourist 1 sends more     *)
(* than 100 pings, one every five minutes, every fifth one off the route;  *)
(* tourist 2 sends a few in between.                                       *)
(***************************************************************************)
MaxStream == 102

MaxSideStream == 2

StreamLimit(tourist_id) == IF tourist_id = 1 THEN MaxStream ELSE MaxSideStream

\* the k-th ping of a tourist (k = 0, 1, 2, ...)
StreamRequest(tourist_id, k) ==
    Request(tourist_id,
            IF k % 5 = 4 THEN OffRoute ELSE OnRoute,
            Stamp(IF k % 2 = 0 THEN "T" ELSE " ", k * 300))

StreamCheckAnomaly ==
    /\ \E t \in Tourists :
          /\ Len(accepted[t]) < StreamLimit(t)
          /\ check_anomaly(StreamRequest(t, Len(accepted[t])))
    /\ nreq' = nreq + 1
    /\ UNCHANGED <<detectorVars, df, sim, threadVars>>

StreamNext == StreamCheckAnomaly

SpecStream == Init /\ [][StreamNext]_vars

\* C1: every tourist's stored history holds at most 100 points and is the
\* most recent min(n, 100) of the n points stored for that tourist, in
\* arrival order; a tourist with no key has stored nothing.
C1_HistoryIsLast100 ==
    \A t \in Tourists :
        IF t \in DOMAIN tourist_history
        THEN /\ Len(tourist_history[t]) <= 100
             /\ Len(tourist_history[t]) = Min2(Len(accepted[t]), 100)
             /\ \A i \in 1..Len(tourist_history[t]) :
                   tourist_history[t][i]
                     = accepted[t][Len(accepted[t]) - Len(tourist_history[t]) + i]
        ELSE accepted[t] = <<>>

\* more than 100 points stored for one tourist: the oldest have been evicted
C1_Witness ==
    \E t \in DOMAIN tourist_history :
        /\ Len(accepted[t]) > 100
        /\ Len(tourist_history[t]) = 100
        /\ tourist_history[t][1] # accepted[t][1]

(***************************************************************************)
(* The rule-based detectors as functions of their input table.  The table  *)
(* is drawn at the start and one call is made on it.                       *)
(***************************************************************************)
MaxStopRows == 3

MaxDeviationRows == 2

Ping(tourist_id, place, timestamp) ==
    [tourist_id |-> tourist_id, lat |-> place[1], lon |-> place[2], timestamp |-> timestamp]

\* 5 m and 10 m north of the first waypoint
Near5 == <<12971645, 77594600>>

Near10 == <<12971690, 77594600>>

\* past the last waypoint, 155 m from it and farther from every other one
PastEnd == <<12976600, 77599600>>

\* 200 m, 300 m and 667 m north of the last waypoint
Off200 == <<12977399, 77598600>>

Off300 == <<12978298, 77598600>>

Off667 == <<12981600, 77598600>>

Waypoints == {planned_route[i] : i \in 1..Len(planned_route)}

\* gaps of 299 s, 300 s (the threshold), 360 s (6 minutes) and 660 s (past the cap)
StopPings ==
    {Ping(1, p, Stamp("T", t)) : p \in {OnRoute, Near5}, t \in {0, 300, 660}}
      \cup {Ping(1, Near10, Stamp("T", 300)),
            Ping(1, OnRoute, Stamp("T", 299)),
            Ping(1, OnRoute, Stamp(" ", 300)),
            Ping(2, OnRoute, Stamp("T", 300))}

DeviationPings ==
    {Ping(1, p, Stamp("T", 0)) :
        p \in Waypoints \cup {PastEnd, Off200, Off300, Off667, OffRoute}}
      \cup {Ping(2, OnRoute, Stamp("T", 0)), Ping(2, Off667, Stamp("T", 0))}

\* the sequences over S of length 0..n
RECURSIVE SeqsUpTo(_, _)
SeqsUpTo(S, n) ==
    IF n = 0 THEN {<<>>}
    ELSE LET shorter == SeqsUpTo(S, n - 1)
         IN  shorter \cup {Append(s, x) : s \in {q \in shorter : Len(q) = n - 1}, x \in S}

RuleTables == SeqsUpTo(StopPings, MaxStopRows) \cup SeqsUpTo(DeviationPings, MaxDeviationRows)

RulesInit ==
    /\ ServiceInit
    /\ DetectorInit
    /\ df \in RuleTables
    /\ result = NoResult
    /\ sim = [i |-> 0]

DetectStopAnomaly ==
    /\ result = NoResult
    /\ \E t \in Tourists :
          result' = [op |-> "detect_stop_anomaly", tourist_id |-> t,
                     records |-> detect_stop_anomaly(df, t)]
    /\ UNCHANGED <<serviceVars, detectorVars, df, sim, threadVars>>

DetectRouteDeviation ==
    /\ result = NoResult
    /\ \E t \in Tourists :
          result' = [op |-> "detect_route_deviation", tourist_id |-> t,
                     records |-> detect_route_deviation(df, t)]
    /\ UNCHANGED <<serviceVars, detectorVars, df, sim, threadVars>>

\* (mutant) the call also starts a training of the pattern model
CheckSinglePoint_Trains ==
    /\ result = NoResult
    /\ df # <<>>
    /\ \E historical_data \in {NoHistory, HistoryOf(Front(df))} :
          LET q == Last(df)
          IN  result' = [op |-> "check_single_point", tourist_id |-> q.tourist_id,
                         query |-> CurrentPoint(q.tourist_id, q.lat, q.lon, q.timestamp),
                         history |-> historical_data,
                         records |-> check_single_point(q.tourist_id, q.lat, q.lon,
                                                        q.timestamp, historical_data)]
    /\ ml_model' = [state |-> "unfitted"]
    /\ UNCHANGED <<serviceVars, scaler, trained, df, sim, threadVars>>

\* check_single_point on the last row of the table, with no history or with
\* the rows before it as the history
CheckSinglePoint ==
    /\ result = NoResult
    /\ df # <<>>
    /\ \E historical_data \in {NoHistory, HistoryOf(Front(df))} :
          LET q == Last(df)
          IN  result' = [op |-> "check_single_point", tourist_id |-> q.tourist_id,
                         query |-> CurrentPoint(q.tourist_id, q.lat, q.lon, q.timestamp),
                         history |-> historical_data,
                         records |-> check_single_point(q.tourist_id, q.lat, q.lon,
                                                        q.timestamp, historical_data)]
    /\ UNCHANGED <<serviceVars, detectorVars, df, sim, threadVars>>

\* the first request a fresh service receives: the last row of the table
FirstCheckAnomaly ==
    /\ result = NoResult
    /\ df # <<>>
    /\ nreq = 0
    /\ LET q == Last(df)
       IN  check_anomaly(Request(q.tourist_id, <<q.lat, q.lon>>, q.timestamp))
    /\ nreq' = nreq + 1
    /\ UNCHANGED <<detectorVars, df, sim, threadVars>>

RulesNext ==
    \/ DetectStopAnomaly
    \/ DetectRouteDeviation
    \/ CheckSinglePoint
    \/ FirstCheckAnomaly

SpecRules == RulesInit /\ [][RulesNext]_vars

(***************************************************************************)
(* Properties of the rule-based detectors                                  *)
(***************************************************************************)
\* where a row or a record is: whose it is, when and at which coordinates
Loc(x) == <<x.tourist_id, x.timestamp, x.lat, x.lon>>

\* the rows of one tourist, in table order
EntityRows(table, tourist_id) ==
    LET idx == {i \in 1..Len(table) : table[i].tourist_id = tourist_id}
        RECURSIVE Pick(_)
        Pick(i) == IF i > Len(table) THEN <<>>
                   ELSE IF i \in idx THEN <<table[i]>> \o Pick(i + 1) ELSE Pick(i + 1)
    IN  Pick(1)

\* row i precedes row j in the order of the timestamp strings (equal strings: table order)
Before(rows, i, j) ==
    \/ StrLess(rows[i].timestamp, rows[j].timestamp)
    \/ rows[i].timestamp = rows[j].timestamp /\ i < j

\* (rows[i], rows[j]) is a consecutive pair (prev, cur)
Consecutive(rows, i, j) ==
    /\ Before(rows, i, j)
    /\ \A k \in 1..Len(rows) : ~(Before(rows, i, k) /\ Before(rows, k, j))

GapSeconds(rows, i, j) == to_datetime(rows[j].timestamp) - to_datetime(rows[i].timestamp)

\* distance < 10 m and gap >= stop_threshold_minutes
QualifyingPair(rows, i, j) ==
    /\ Consecutive(rows, i, j)
    /\ haversine_distance(rows[i].lat, rows[i].lon, rows[j].lat, rows[j].lon) < 100
    /\ GapSeconds(rows, i, j) >= stop_threshold_minutes * 60

\* c = min(gap / threshold, 2.0), which lies in [1.0, 2.0] and is 1.2 for six minutes
StopConfidenceIs(c, gap) ==
    LET threshold == stop_threshold_minutes * 60
    IN  /\ c.den > 0
        /\ IF gap <= 2 * threshold THEN c.num * threshold = gap * c.den ELSE c.num = 2 * c.den
        /\ c.den <= c.num /\ c.num <= 2 * c.den
        /\ gap = 360 => 10 * c.num = 12 * c.den

\* C2: detect_stop_anomaly returns exactly one stop record, located at cur, for
\* each consecutive pair (prev, cur) of the tourist's pings that are less than
\* 10 m apart with a gap of at least the threshold, and no other record; the
\* record's confidence is min(gap / threshold, 2.0).
C2_StopRecords ==
    result.op = "detect_stop_anomaly" =>
        LET rows == EntityRows(df, result.tourist_id)
            recs == result.records
            I    == 1..Len(rows)
            Curs == {j \in I : \E i \in I : QualifyingPair(rows, i, j)}
        IN  /\ Len(recs) = Cardinality(Curs)
            /\ \A j \in Curs :
                  Cardinality({k \in 1..Len(recs) : Loc(recs[k]) = Loc(rows[j])})
                    = Cardinality({j2 \in Curs : Loc(rows[j2]) = Loc(rows[j])})
            /\ \A k \in 1..Len(recs) :
                  /\ recs[k].anomaly_type = "stopped_too_long"
                  /\ \E j \in Curs : \E i \in I :
                        /\ QualifyingPair(rows, i, j)
                        /\ Loc(recs[k]) = Loc(rows[j])
                        /\ StopConfidenceIs(recs[k].confidence, GapSeconds(rows, i, j))

\* two stops in one table, one of them after a six-minute gap with confidence
\* 1.2, and a pair exactly 10 m apart that gives none
C2_Witness ==
    /\ result.op = "detect_stop_anomaly"
    /\ Len(result.records) = 2
    /\ \E k \in 1..2 : 10 * result.records[k].confidence.num = 12 * result.records[k].confidence.den
    /\ Len(EntityRows(df, result.tourist_id)) = 3

\* the minimum distance from a point to the waypoints of the planned route
WaypointDistance(lat, lon) ==
    LET D == {haversine_distance(lat, lon, w[1], w[2]) : w \in Waypoints}
    IN  CHOOSE d \in D : \A e \in D : d <= e

\* c = min(d / threshold, 3.0), which lies in (1.0, 3.0] and is 1.5 for 300 m
DeviationConfidenceIs(c, d) ==
    LET threshold == deviation_threshold_meters * 10
    IN  /\ c.den > 0
        /\ IF d <= 3 * threshold THEN c.num * threshold = d * c.den ELSE c.num = 3 * c.den
        /\ c.den < c.num /\ c.num <= 3 * c.den
        /\ d = 3000 => 2 * c.num = 3 * c.den

\* C4: detect_route_deviation returns exactly one deviation record at each ping
\* of the tourist whose minimum distance to the waypoints is strictly greater
\* than the threshold, and no other record; the record's confidence is
\* min(min_distance / threshold, 3.0).
C4_DeviationRecords ==
    result.op = "detect_route_deviation" =>
        LET rows == EntityRows(df, result.tourist_id)
            recs == result.records
            Far  == {i \in 1..Len(rows) :
                        WaypointDistance(rows[i].lat, rows[i].lon) > deviation_threshold_meters * 10}
        IN  /\ Len(recs) = Cardinality(Far)
            /\ \A i \in Far :
                  Cardinality({k \in 1..Len(recs) : Loc(recs[k]) = Loc(rows[i])})
                    = Cardinality({i2 \in Far : Loc(rows[i2]) = Loc(rows[i])})
            /\ \A k \in 1..Len(recs) :
                  /\ recs[k].anomaly_type = "route_deviation"
                  /\ \E i \in Far :
                        /\ Loc(recs[k]) = Loc(rows[i])
                        /\ DeviationConfidenceIs(recs[k].confidence,
                                                 WaypointDistance(rows[i].lat, rows[i].lon))

\* a ping exactly 200 m out gives no record, one 300 m out gives one of confidence 1.5
C4_Witness ==
    /\ result.op = "detect_route_deviation"
    /\ \E i \in 1..Len(df) :
          /\ df[i].tourist_id = result.tourist_id
          /\ WaypointDistance(df[i].lat, df[i].lon) = deviation_threshold_meters * 10
    /\ Len(result.records) = 1
    /\ 2 * result.records[1].confidence.num = 3 * result.records[1].confidence.den

\* C5: no deviation record is located at a waypoint, and a request for a ping
\* at a waypoint from a tourist with no stored history is answered 'normal'
\* with an empty anomaly list.
C5_WaypointIsNormal ==
    /\ result.op \in {"detect_route_deviation", "check_single_point"} =>
          \A k \in 1..Len(result.records) :
              result.records[k].anomaly_type = "route_deviation"
                => <<result.records[k].lat, result.records[k].lon>> \notin Waypoints
    /\ (/\ response.code = 200
        /\ <<response.location.lat, response.location.lon>> \in Waypoints
        /\ result.history.is_none)
          => response.status = "normal" /\ response.anomalies = <<>>

\* the first request of a tourist, at the last waypoint, answered 'normal'
C5_Witness ==
    /\ response.code = 200
    /\ <<response.location.lat, response.location.lon>> = planned_route[5]
    /\ result.history.is_none
    /\ response.status = "normal"

\* C7: check_single_point with no history or an empty history returns no stop
\* record, and detect_stop_anomaly on a tourist with fewer than 2 pings in the
\* table returns no record.
C7_NoStopWithoutHistory ==
    /\ (result.op = "check_single_point"
          /\ (result.history.is_none \/ result.history.rows = <<>>))
          => StopsOf(result.records) = {}
    /\ (result.op = "detect_stop_anomaly"
          /\ Cardinality({i \in 1..Len(df) : df[i].tourist_id = result.tourist_id}) < 2)
          => result.records = <<>>

\* check_single_point was called with an empty history that is not None
C7_Witness ==
    /\ result.op = "check_single_point"
    /\ ~result.history.is_none
    /\ result.history.rows = <<>>
    /\ StopsOf(result.records) = {}

(***************************************************************************)
(* Properties of the single-point path under the service                   *)
(***************************************************************************)
\* farther than the threshold from every waypoint
FarFromRoute(lat, lon) ==
    \A w \in Waypoints :
        haversine_distance(lat, lon, w[1], w[2]) > deviation_threshold_meters * 10

\* the histories check_single_point is compared on: none, empty, the one it
\* was called with and every stored one
C6_Histories ==
    {NoHistory, HistoryOf(<<>>), result.history}
      \cup {HistoryOf(tourist_history[t]) : t \in DOMAIN tourist_history}

\* C6: the deviation records check_single_point returns for a ping are the
\* same for every history, and a ping farther than the threshold from every
\* waypoint is answered 'anomaly' on that very request.
C6_DeviationIgnoresHistory ==
    result.op = "check_single_point" =>
        LET q == result.query
        IN  /\ \A h \in C6_Histories :
                  DeviationsOf(check_single_point(q.tourist_id, q.lat, q.lon, q.timestamp, h))
                    = DeviationsOf(result.records)
            /\ FarFromRoute(q.lat, q.lon) => response.status = "anomaly"

\* a far ping answered 'anomaly' by a request whose history held both an
\* on-route and an off-route point
C6_Witness ==
    /\ result.op = "check_single_point"
    /\ FarFromRoute(result.query.lat, result.query.lon)
    /\ response.status = "anomaly"
    /\ Len(result.history.rows) = 2
    /\ \E i, j \in 1..2 :
          /\ FarFromRoute(result.history.rows[i].lat, result.history.rows[i].lon)
          /\ ~FarFromRoute(result.history.rows[j].lat, result.history.rows[j].lon)

\* C8: every stop record a request returns lies within 60 seconds of the
\* queried ping, and none of them was returned by an earlier request.
C8_StopsAreNew ==
    [][result'.op = "check_single_point" =>
          /\ \A r \in StopsOf(result'.records) :
                Abs(to_datetime(r.timestamp) - to_datetime(result'.query.timestamp)) < 60
          /\ StopsOf(result'.records) \cap reported[result'.tourist_id] = {}]_vars

\* what the claim calls a request that must be refused
Malformed(data) ==
    \/ ~data.is_json
    \/ data.missing \in {"tourist_id", "lat", "lon", "timestamp"}
    \/ data.lat < -90000000 \/ data.lat > 90000000
    \/ data.lon < -180000000 \/ data.lon > 180000000
    \/ data.timestamp.sep \notin {"T", " "}

\* C11: a check_anomaly request that is not JSON, lacks a required field, has a
\* latitude outside [-90, 90] or a longitude outside [-180, 180], or a timestamp in
\* neither accepted format is answered with an error status, makes no
\* check_single_point call and leaves every tourist's stored history unchanged.
C11_MalformedIsRefused ==
    [][(nreq' = nreq + 1 /\ Malformed(request'))
          => /\ response'.status = "error"
             /\ result' = NoResult
             /\ tourist_history' = tourist_history]_vars

\* a request with an unreadable timestamp was refused after a ping had been stored
C11_Witness ==
    /\ request # NoRequest
    /\ request.is_json
    /\ request.missing = "none"
    /\ request.timestamp.sep \notin {"T", " "}
    /\ response.status = "error"
    /\ \E t \in DOMAIN tourist_history : Len(tourist_history[t]) > 0

(***************************************************************************)
(* data_sim.py: generate_stop_anomaly, one appended point per step, and    *)
(* the stop detector run on the finished data.  random.uniform is a choice *)
(* among a few offsets within its range, in micro-degrees.                 *)
(***************************************************************************)
base_route ==
    << <<12971600, 77594600>>,
       <<12972600, 77595600>>,
       <<12973600, 77596600>>,
       <<12974600, 77597600>>,
       <<12975600, 77598600>> >>

\* `for i in range(3)`: the normal points leading to the stop
NormalPoints == 3

\* stop_duration = 8
StopDuration == 8

\* generate_complete_dataset: generate_stop_anomaly(2, ...)
SimTourist == 2

\* random.uniform(-0.0001, 0.0001) for latitude and longitude
NormalJitter == {<<-100, 0>>, <<100, 100>>}

\* random.uniform(-0.00005, 0.00005): the chosen offsets lie within 5 m of each other
StopJitter == {<<0, 0>>, <<40, -20>>}

SimPoint(jitter, is_anomaly, anomaly_type) ==
    [tourist_id   |-> SimTourist,
     lat          |-> base_route[2][1] + jitter[1],
     lon          |-> base_route[2][2] + jitter[2],
     timestamp    |-> Stamp(" ", sim.current_time),
     is_anomaly   |-> is_anomaly,
     anomaly_type |-> anomaly_type]

SimInit ==
    /\ ServiceInit
    /\ DetectorInit
    /\ df = <<>>
    /\ result = NoResult
    /\ sim = [i |-> 0, current_time |-> 0]

GenerateNormalPoint ==
    /\ sim.i < NormalPoints
    /\ \E jitter \in NormalJitter : df' = Append(df, SimPoint(jitter, FALSE, "normal"))
    /\ sim' = [i |-> sim.i + 1, current_time |-> sim.current_time + 60]
    /\ UNCHANGED <<serviceVars, detectorVars, result, threadVars>>

GenerateStoppedPoint ==
    /\ NormalPoints <= sim.i /\ sim.i < NormalPoints + StopDuration
    /\ \E jitter \in StopJitter : df' = Append(df, SimPoint(jitter, TRUE, "stopped_too_long"))
    /\ sim' = [i |-> sim.i + 1, current_time |-> sim.current_time + 60]
    /\ UNCHANGED <<serviceVars, detectorVars, result, threadVars>>

SimDetectStop ==
    /\ sim.i = NormalPoints + StopDuration
    /\ DetectStopAnomaly

SimNext ==
    \/ GenerateNormalPoint
    \/ GenerateStoppedPoint
    \/ SimDetectStop

SpecSim == SimInit /\ [][SimNext]_vars

\* a/b < c/d for fractions with positive denominators
FracLess(x, y) == x.num * y.den < y.num * x.den

\* C3: on 3 normal pings followed by 8 pings stationary within 5 m, one per
\* minute, stop records are emitted, the first of them at the ping where the
\* dwell (the time since the first stationary ping) reaches 5 minutes, and the
\* confidence of successive stop records increases.
C3_StopsBeginAtDwell ==
    (result.op = "detect_stop_anomaly" /\ result.tourist_id = SimTourist /\ sim.i = 11) =>
        LET recs  == result.records
            start == to_datetime(df[NormalPoints + 1].timestamp)
        IN  /\ Len(recs) > 0
            /\ to_datetime(recs[1].timestamp) - start = stop_threshold_minutes * 60
            /\ \A k \in 1..(Len(recs) - 1) :
                  FracLess(recs[k].confidence, recs[k + 1].confidence)

(***************************************************************************)
(* The pattern model: prepare_ml_features, train_ml_model,                 *)
(* detect_ml_anomalies and analyze_tourist_data.                           *)
(*                                                                         *)
(* ml_model is [state |-> "None"], [state |-> "unfitted"] (an              *)
(* IsolationForest that was constructed and never fitted) or               *)
(* [state |-> "fitted", X |-> the feature rows it was fitted on]; scaler   *)
(* is [fitted |-> FALSE] or [fitted |-> TRUE, X |-> ...].  The library     *)
(* calls can raise: `fault` names the call that does, if it is reached     *)
(* ("none": no call raises).  What a fitted forest predicts is not         *)
(* modelled: `labels` gives the label (1 or -1) of every feature row.      *)
(***************************************************************************)
Faults == {"none", "to_datetime", "fit_transform", "fit", "transform", "predict"}

\* np.mean over the route's latitudes and longitudes
RECURSIVE SumCoord(_, _)
SumCoord(i, c) == IF i > Len(planned_route) THEN 0 ELSE planned_route[i][c] + SumCoord(i + 1, c)

route_center == <<SumCoord(1, 1) \div Len(planned_route), SumCoord(1, 2) \div Len(planned_route)>>

\* distance / max(time_diff, 0.1), in decimetres per minute
Speed(distance, time_diff) ==
    [num |-> distance * 60, den |-> IF time_diff > 6 THEN time_diff ELSE 6]

FeatureRow(prev_row, current_row) ==
    LET distance  == haversine_distance(prev_row.lat, prev_row.lon,
                                        current_row.lat, current_row.lon)
        time_diff == TimeDiff(prev_row, current_row)
    IN  [distance             |-> distance,
         time_diff            |-> time_diff,
         speed                |-> Speed(distance, time_diff),
         distance_from_center |-> haversine_distance(current_row.lat, current_row.lon,
                                                     route_center[1], route_center[2]),
         lat                  |-> current_row.lat,
         lon                  |-> current_row.lon]

\* the rows of one tourist: one feature row per consecutive pair
RECURSIVE PairFeatures(_, _)
PairFeatures(tourist_data, i) ==
    IF i > Len(tourist_data) THEN <<>>
    ELSE <<FeatureRow(tourist_data[i - 1], tourist_data[i])>> \o PairFeatures(tourist_data, i + 1)

RECURSIVE FeaturesFrom(_, _, _)
FeaturesFrom(table, ids, n) ==
    IF n > Len(ids) THEN <<>>
    ELSE PairFeatures(sort_values(RowsOf(table, ids[n])), 2) \o FeaturesFrom(table, ids, n + 1)

prepare_ml_features(table) == FeaturesFrom(table, unique_ids(table), 1)

\* (mutant) a forest that is fitted already is kept, with its scaler
train_ml_model_KeepsFitted(table, model, sc, fault) ==
    LET features == prepare_ml_features(table)
    IN  IF Len(features) = 0 \/ model.state = "fitted"
        THEN [raised |-> FALSE, ml_model |-> model, scaler |-> sc]
        ELSE [raised   |-> FALSE,
              ml_model |-> [state |-> "fitted", X |-> features],
              scaler   |-> [fitted |-> TRUE, X |-> features]]

\* train_ml_model: [raised, ml_model, scaler] after the call
train_ml_model(table, model, sc, fault) ==
    LET features == prepare_ml_features(table)
    IN  IF fault = "to_datetime" /\ Len(table) > 0
        THEN [raised |-> TRUE, ml_model |-> model, scaler |-> sc]
        ELSE IF Len(features) = 0
        THEN [raised |-> FALSE, ml_model |-> model, scaler |-> sc]
        ELSE IF fault = "fit_transform"
        \* StandardScaler.fit resets the scaler before it reads the data
        THEN [raised |-> TRUE, ml_model |-> model, scaler |-> [fitted |-> FALSE]]
        ELSE IF fault = "fit"
        \* self.ml_model was assigned the new forest before fit() was called
        THEN [raised   |-> TRUE,
              ml_model |-> [state |-> "unfitted"],
              scaler   |-> [fitted |-> TRUE, X |-> features]]
        ELSE [raised   |-> FALSE,
              ml_model |-> [state |-> "fitted", X |-> features],
              scaler   |-> [fitted |-> TRUE, X |-> features]]

PatternRecord(tourist_id, current_row) ==
    [tourist_id   |-> tourist_id,
     timestamp    |-> current_row.timestamp,
     lat          |-> current_row.lat,
     lon          |-> current_row.lon,
     anomaly_type |-> "ml_pattern_anomaly",
     details      |-> [text |-> "ML detected unusual pattern", value |-> "score"],
     confidence   |-> "abs(score)"]

\* the inner loop of detect_ml_anomalies over one tourist's rows: <<records, feature_idx>>
RECURSIVE PatternRows(_, _, _, _, _, _)
PatternRows(tourist_data, tourist_id, i, feature_idx, labels, anomalies) ==
    IF i > Len(tourist_data) THEN <<anomalies, feature_idx>>
    ELSE PatternRows(tourist_data, tourist_id, i + 1, feature_idx + 1, labels,
                     IF feature_idx < Len(labels) /\ labels[feature_idx + 1] = -1
                     THEN Append(anomalies, PatternRecord(tourist_id, tourist_data[i]))
                     ELSE anomalies)

\* (mutant) feature_idx starts again at 0 for every tourist
RECURSIVE PatternLoop_RestartsIndex(_, _, _, _, _, _)
PatternLoop_RestartsIndex(table, ids, n, feature_idx, labels, anomalies) ==
    IF n > Len(ids) THEN anomalies
    ELSE LET step == PatternRows(sort_values(RowsOf(table, ids[n])), ids[n], 2,
                                 0, labels, anomalies)
         IN  PatternLoop_RestartsIndex(table, ids, n + 1, step[2], labels, step[1])

RECURSIVE PatternLoop(_, _, _, _, _, _)
PatternLoop(table, ids, n, feature_idx, labels, anomalies) ==
    IF n > Len(ids) THEN anomalies
    ELSE LET step == PatternRows(sort_values(RowsOf(table, ids[n])), ids[n], 2,
                                 feature_idx, labels, anomalies)
         IN  PatternLoop(table, ids, n + 1, step[2], labels, step[1])

\* detect_ml_anomalies: [raised, records]
detect_ml_anomalies(table, model, sc, fault, labels) ==
    LET features == prepare_ml_features(table)
    IN  IF model.state = "None" THEN [raised |-> FALSE, records |-> <<>>]
        ELSE IF fault = "to_datetime" /\ Len(table) > 0 THEN [raised |-> TRUE, records |-> <<>>]
        ELSE IF Len(features) = 0 THEN [raised |-> FALSE, records |-> <<>>]
        \* scaler.transform and ml_model.predict raise NotFittedError before a fit
        ELSE IF fault = "transform" \/ ~sc.fitted THEN [raised |-> TRUE, records |-> <<>>]
        ELSE IF fault = "predict" \/ model.state # "fitted" THEN [raised |-> TRUE, records |-> <<>>]
        ELSE [raised  |-> FALSE,
              records |-> PatternLoop(table, unique_ids(table), 1, 0, labels, <<>>)]

\* (mutant) the route check is missing from the loop
RECURSIVE RuleLoop_StopsOnly(_, _, _, _)
RuleLoop_StopsOnly(table, ids, n, all_anomalies) ==
    IF n > Len(ids) THEN all_anomalies
    ELSE RuleLoop_StopsOnly(table, ids, n + 1,
                            all_anomalies \o detect_stop_anomaly(table, ids[n]))

\* the rule-based loop of analyze_tourist_data
RECURSIVE RuleLoop(_, _, _, _)
RuleLoop(table, ids, n, all_anomalies) ==
    IF n > Len(ids) THEN all_anomalies
    ELSE RuleLoop(table, ids, n + 1,
                  all_anomalies \o detect_stop_anomaly(table, ids[n])
                                \o detect_route_deviation(table, ids[n]))

\* (mutant) no try/except around the pattern model: the exception leaves the call
ExceptMlFailure_Propagates(all_anomalies, model, sc) ==
    [raised |-> TRUE, ml_failed |-> TRUE, records |-> <<>>, ml_model |-> model, scaler |-> sc]

\* `except Exception as e: print(...)`, then `return all_anomalies`
ExceptMlFailure(all_anomalies, model, sc) ==
    [raised |-> FALSE, ml_failed |-> TRUE, records |-> all_anomalies,
     ml_model |-> model, scaler |-> sc]

\* detect_stop_anomaly parses the timestamps of a tourist that has two rows or
\* more, outside the try block: timestamps that cannot be parsed end the call
RuleLoopRaises(table, fault) ==
    fault = "to_datetime" /\ \E n \in 1..Len(table) : Len(RowsOf(table, table[n].tourist_id)) >= 2

\* analyze_tourist_data: [raised, ml_failed, records, ml_model, scaler]
analyze_tourist_data(table, use_ml, model, sc, fault, labels) ==
    LET all_anomalies == RuleLoop(table, unique_ids(table), 1, <<>>)
        tr == train_ml_model(table, model, sc, fault)
        de == detect_ml_anomalies(table, tr.ml_model, tr.scaler, fault, labels)
    IN  IF RuleLoopRaises(table, fault)
        THEN [raised |-> TRUE, ml_failed |-> FALSE, records |-> <<>>,
              ml_model |-> model, scaler |-> sc]
        ELSE IF ~use_ml
        THEN [raised |-> FALSE, ml_failed |-> FALSE, records |-> all_anomalies,
              ml_model |-> model, scaler |-> sc]
        ELSE IF tr.raised \/ de.raised
        THEN ExceptMlFailure(all_anomalies, tr.ml_model, tr.scaler)
        ELSE [raised |-> FALSE, ml_failed |-> FALSE, records |-> all_anomalies \o de.records,
              ml_model |-> tr.ml_model, scaler |-> tr.scaler]

(***************************************************************************)
(* Specification of the pattern model: any sequence of calls of           *)
(* train_ml_model, detect_ml_anomalies and analyze_tourist_data on one     *)
(* detector, each on a table of up to MaxMlRows pings.                     *)
(***************************************************************************)
MaxMlRows == 3

\* the k-th ping of the batch: every third ping is of tourist 2, every second one
\* is off the route, and the pings are five minutes apart
MlPing(k) ==
    Ping(IF k % 3 = 0 THEN 2 ELSE 1,
         IF k % 2 = 0 THEN OffRoute ELSE OnRoute,
         Stamp("T", 300 * (k - 1)))

\* the tables of the first pings of the batch, the empty one included
MlTables == {[k \in 1..n |-> MlPing(k)] : n \in 0..MaxMlRows}

\* the labels a fitted forest can give to the feature rows of a table
LabelsOf(table) ==
    [1..Len(prepare_ml_features(table)) -> {1, -1}]

MlInit ==
    /\ ServiceInit
    /\ DetectorInit
    /\ df = <<>>
    /\ result = NoResult
    /\ sim = [i |-> 0]

\* a train_ml_model call that fitted the scaler and the forest and returned
TrainingCompleted(table, model, sc, fault) ==
    /\ Len(prepare_ml_features(table)) > 0
    /\ ~train_ml_model(table, model, sc, fault).raised

MlUnchanged == UNCHANGED <<serviceVars, sim, threadVars>>

TrainMlModel ==
    /\ \E table \in MlTables, fault \in {"none", "to_datetime", "fit_transform", "fit"} :
          LET out == train_ml_model(table, ml_model, scaler, fault)
          IN  /\ df' = table
              /\ ml_model' = out.ml_model
              /\ scaler' = out.scaler
              /\ trained' = (trained \/ TrainingCompleted(table, ml_model, scaler, fault))
              /\ result' = [op |-> "train_ml_model", fault |-> fault, raised |-> out.raised,
                            records |-> <<>>]
    /\ MlUnchanged

DetectMlAnomalies ==
    /\ \E table \in MlTables, fault \in {"none", "to_datetime", "transform", "predict"} :
       \E labels \in LabelsOf(table) :
          LET out == detect_ml_anomalies(table, ml_model, scaler, fault, labels)
          IN  /\ df' = table
              /\ result' = [op |-> "detect_ml_anomalies", fault |-> fault,
                            raised |-> out.raised, records |-> out.records]
    /\ UNCHANGED detectorVars
    /\ MlUnchanged

AnalyzeTouristData ==
    /\ \E table \in MlTables, use_ml \in BOOLEAN, fault \in Faults :
       \E labels \in LabelsOf(table) :
          LET out == analyze_tourist_data(table, use_ml, ml_model, scaler, fault, labels)
          IN  /\ df' = table
              /\ ml_model' = out.ml_model
              /\ scaler' = out.scaler
              /\ trained' = (trained \/ (/\ use_ml
                                          /\ ~RuleLoopRaises(table, fault)
                                          /\ TrainingCompleted(table, ml_model, scaler, fault)))
              /\ result' = [op |-> "analyze_tourist_data", fault |-> fault, use_ml |-> use_ml,
                            raised |-> out.raised, ml_failed |-> out.ml_failed,
                            records |-> out.records]
    /\ MlUnchanged

MlNext == TrainMlModel \/ DetectMlAnomalies \/ AnalyzeTouristData

SpecMl == MlInit /\ [][MlNext]_vars

\* C9: detect_ml_anomalies returns an empty list and raises no error whenever no
\* train_ml_model call has completed successfully before it (a training call that
\* failed part-way included), and whenever the table yields no feature row; the
\* calls in which a library call is made to fail are left aside.
C9_DetectWithoutTrainingIsEmpty ==
    [][(/\ result'.op = "detect_ml_anomalies"
        /\ result'.fault = "none"
        /\ (~trained \/ Len(prepare_ml_features(df')) = 0))
       => (~result'.raised /\ result'.records = <<>>)]_vars

ml_anomalies(records) ==
    {n \in 1..Len(records) : records[n].anomaly_type = "ml_pattern_anomaly"}

\* C10: when training or prediction raises inside analyze_tourist_data with use_ml
\* true, the call does not raise: it returns exactly the stop and deviation records
\* that the call with use_ml false returns on the same table, and no pattern record.
C10_MlFailureIsContained ==
    (result.op = "analyze_tourist_data" /\ result.use_ml /\ result.ml_failed)
        => /\ ~result.raised
           /\ result.records
                 = analyze_tourist_data(df, FALSE, ml_model, scaler, "none", <<>>).records
           /\ ml_anomalies(result.records) = {}

\* a call with use_ml true in which the forest's fit raised, on a table that holds a
\* deviation: the deviation record is returned
C10_Witness ==
    /\ result.op = "analyze_tourist_data"
    /\ result.use_ml
    /\ result.ml_failed
    /\ result.fault = "fit"
    /\ ml_model.state = "unfitted"
    /\ DeviationsOf(result.records) # <<>>

(***************************************************************************)
(* Specification of the batch analysis: one analyze_tourist_data call of a *)
(* fresh detector on a table of up to MaxBatchRows pings.                  *)
(***************************************************************************)
MaxBatchRows == 3

\* pings of two tourists at the first waypoint, five minutes apart (a stop each),
\* and a ping of tourist 1 off the route
BatchPings ==
    {Ping(t, OnRoute, Stamp("T", time)) : t \in Tourists, time \in {0, 300}}
       \cup {Ping(1, OffRoute, Stamp("T", 330))}

BatchTables == SeqsUpTo(BatchPings, MaxBatchRows)

BatchInit ==
    /\ ServiceInit
    /\ DetectorInit
    /\ df \in BatchTables
    /\ result = NoResult
    /\ sim = [i |-> 0]

AnalyzeBatch ==
    /\ result = NoResult
    /\ \E use_ml \in BOOLEAN, fault \in Faults :
       \E labels \in LabelsOf(df) :
          LET out == analyze_tourist_data(df, use_ml, ml_model, scaler, fault, labels)
          IN  /\ ml_model' = out.ml_model
              /\ scaler' = out.scaler
              /\ trained' = (/\ use_ml
                             /\ ~RuleLoopRaises(df, fault)
                             /\ TrainingCompleted(df, ml_model, scaler, fault))
              /\ result' = [op |-> "analyze_tourist_data", fault |-> fault, use_ml |-> use_ml,
                            raised |-> out.raised, ml_failed |-> out.ml_failed,
                            records |-> out.records]
    /\ UNCHANGED <<serviceVars, df, sim, threadVars>>

BatchNext == AnalyzeBatch

SpecBatch == BatchInit /\ [][BatchNext]_vars

\* the records of the two rules among the records of a call
RuleRecords(records) == SelectSeq(records, LAMBDA a : a.anomaly_type # "ml_pattern_anomaly")

\* the number of records of a type located at a ping, and the number of rows of
\* the table that are this ping
CountRecords(records, type, row) ==
    Cardinality({n \in 1..Len(records) :
                    /\ records[n].anomaly_type = type
                    /\ records[n].tourist_id = row.tourist_id
                    /\ Loc(records[n]) = Loc(row)})

CountRows(table, row) == Cardinality({n \in 1..Len(table) : table[n] = row})

\* C12: analyze_tourist_data returns, for every distinct tourist of the table,
\* exactly the records of detect_stop_anomaly and detect_route_deviation on that
\* tourist's pings, at most one stop and one deviation record per ping; these
\* records are the same with use_ml true and false, and a table holding a ping
\* farther than the threshold from every waypoint yields at least one record.
C12_BatchRuleRecords ==
    (result.op = "analyze_tourist_data" /\ ~result.raised) =>
        LET rules == RuleRecords(result.records)
        IN  /\ \A t \in Tourists :
                  SelectSeq(rules, LAMBDA a : a.tourist_id = t)
                     = detect_stop_anomaly(df, t) \o detect_route_deviation(df, t)
            /\ \A n \in 1..Len(rules) : rules[n].tourist_id \in {df[k].tourist_id : k \in 1..Len(df)}
            /\ \A k \in 1..Len(df) :
                  /\ CountRecords(rules, "stopped_too_long", df[k]) <= CountRows(df, df[k])
                  /\ CountRecords(rules, "route_deviation", df[k]) <= CountRows(df, df[k])
            /\ rules = analyze_tourist_data(df, FALSE, ml_model, scaler, "none", <<>>).records
            /\ (\E k \in 1..Len(df) : FarFromRoute(df[k].lat, df[k].lon)) => Len(result.records) >= 1

\* a call with use_ml true on pings of two tourists, in which a stop and a
\* deviation were found and the pattern model was fitted and flagged a ping
C12_Witness ==
    /\ result.op = "analyze_tourist_data"
    /\ result.use_ml
    /\ ~result.raised
    /\ ~result.ml_failed
    /\ Cardinality({df[k].tourist_id : k \in 1..Len(df)}) = 2
    /\ StopsOf(result.records) # {}
    /\ DeviationsOf(result.records) # <<>>
    /\ ml_anomalies(result.records) # {}

\* C13: every stop record returned by check_single_point is located at the
\* queried ping itself (the same instant and the same coordinates), never at a
\* ping of the history.
C13_StopsAtQueriedPing ==
    result.op = "check_single_point" =>
        \A r \in StopsOf(result.records) :
            /\ to_datetime(r.timestamp) = to_datetime(result.query.timestamp)
            /\ r.lat = result.query.lat
            /\ r.lon = result.query.lon

\* C14: after a train_ml_model call has returned, the scaler and the model hold
\* nothing of an earlier call: what is fitted is fitted on the feature rows of
\* the table of this call, whatever the table is (one with no feature row
\* included).
C14_TrainingDiscardsState ==
    (result.op = "train_ml_model" /\ ~result.raised) =>
        /\ ml_model.state = "fitted" => ml_model.X = prepare_ml_features(df)
        /\ scaler.fitted => scaler.X = prepare_ml_features(df)

(***************************************************************************)
(* check_anomaly under concurrent requests.  app.run serves every request  *)
(* in a thread of its own, and the handler takes no lock: its statements   *)
(* on the shared dict tourist_history interleave.  Each thread handles one *)
(* request; its position is the next statement on shared state:            *)
(*   "lookup"      l.107-118  read the history, call check_single_point    *)
(*   "test_absent" l.121      `tourist_id not in tourist_history`          *)
(*   "create"      l.122      `tourist_history[tourist_id] = []`           *)
(*   "load_list"   l.124      evaluate `tourist_history[tourist_id]`       *)
(*   "append"      l.124      `.append({...})` on the list that was loaded *)
(*   "truncate"    l.134-135  keep the last 100 points                     *)
(* A list that the dict no longer holds when a thread appends to it is     *)
(* garbage: the appended point is in no stored history.  Two requests on a *)
(* fresh service leave the lists far below the cap of 100, so the test and *)
(* the assignment of l.134-135 are one step here.                          *)
(***************************************************************************)
Threads == {1, 2}

\* the local variables of a handler: the request body, the anomalies found and the
\* list object it has looked up; `overlapped` is a history variable: another
\* handler was running when this one started
IdleThread ==
    [pc |-> "idle", data |-> NoRequest, anomalies |-> <<>>, list |-> 0, overlapped |-> FALSE]

\* the pings the two threads receive, and a request that is refused
ConcurrentRequests ==
    {Request(1, OnRoute, Stamp("T", 0)),
     Request(1, OnRoute, Stamp("T", 300)),
     Request(2, OffRoute, Stamp("T", 0)),
     [Request(1, OnRoute, Stamp("T", 0)) EXCEPT !.lat = 90000001]}

ConcInit ==
    /\ tourist_history = [t \in {} |-> <<>>]
    /\ accepted = [t \in Tourists |-> <<>>]
    /\ list_id = [t \in Tourists |-> 0]
    /\ threads = [th \in Threads |-> IdleThread]
    /\ response = NoResponse
    /\ reported = [t \in Tourists |-> {}]
    /\ nreq = 0
    /\ request = NoRequest
    /\ DetectorInit
    /\ df = <<>>
    /\ result = NoResult
    /\ sim = [i |-> 0]

Running(th) == threads[th].pc \notin {"idle", "refused", "done"}

ConcFrame == UNCHANGED <<detectorVars, df, sim, reported>>

\* l.56-104: the request arrives and is validated
Receive(th) ==
    /\ threads[th].pc = "idle"
    /\ \E data \in ConcurrentRequests :
          /\ request' = data
          /\ threads' = [threads EXCEPT ![th] =
                            [@ EXCEPT !.pc = IF Validate(data) # "ok" THEN "refused" ELSE "lookup",
                                      !.data = data,
                                      !.overlapped = \E o \in Threads \ {th} : Running(o)]]
          /\ IF Validate(data) # "ok"
             THEN /\ response' = ErrorResponse(400, Validate(data))
                  /\ nreq' = nreq + 1
             ELSE UNCHANGED <<response, nreq>>
    /\ UNCHANGED <<tourist_history, accepted, list_id, result>>
    /\ ConcFrame

\* l.107-118
Lookup(th) ==
    /\ threads[th].pc = "lookup"
    /\ LET data            == threads[th].data
           historical_data == HistoricalData(tourist_history, data.tourist_id)
           anomalies       == check_single_point(data.tourist_id, data.lat, data.lon,
                                                 data.timestamp, historical_data)
       IN  /\ threads' = [threads EXCEPT ![th] =
                            [@ EXCEPT !.pc = "test_absent", !.anomalies = anomalies]]
           /\ result' = [op |-> "check_single_point", tourist_id |-> data.tourist_id,
                         query |-> CurrentPoint(data.tourist_id, data.lat, data.lon, data.timestamp),
                         history |-> historical_data, records |-> anomalies]
    /\ UNCHANGED <<tourist_history, accepted, list_id, response, nreq, request>>
    /\ ConcFrame

\* (mutant) the test is missing: a new list is stored on every request
AbsentBranch_AlwaysCreate(history, tourist_id) == "create"

\* `if tourist_id not in tourist_history:`
AbsentBranch(history, tourist_id) ==
    IF tourist_id \notin DOMAIN history THEN "create" ELSE "load_list"

\* l.121
TestAbsent(th) ==
    /\ threads[th].pc = "test_absent"
    /\ threads' = [threads EXCEPT ![th].pc =
                      AbsentBranch(tourist_history, threads[th].data.tourist_id)]
    /\ UNCHANGED <<tourist_history, accepted, list_id, response, nreq, request, result>>
    /\ ConcFrame

\* storing a list object under the tourist's key: the list the dict held is dropped
SetList(history, tourist_id, points) ==
    [t \in DOMAIN history \cup {tourist_id} |-> IF t = tourist_id THEN points ELSE history[t]]

\* l.122
Create(th) ==
    /\ threads[th].pc = "create"
    /\ LET tourist_id == threads[th].data.tourist_id
       IN  /\ tourist_history' = SetList(tourist_history, tourist_id, <<>>)
           /\ list_id' = [list_id EXCEPT ![tourist_id] = @ + 1]
    /\ threads' = [threads EXCEPT ![th].pc = "load_list"]
    /\ UNCHANGED <<accepted, response, nreq, request, result>>
    /\ ConcFrame

\* l.124: the list object is looked up before the point is built and appended
LoadList(th) ==
    /\ threads[th].pc = "load_list"
    /\ threads' = [threads EXCEPT ![th] =
                      [@ EXCEPT !.pc = "append", !.list = list_id[threads[th].data.tourist_id]]]
    /\ UNCHANGED <<tourist_history, accepted, list_id, response, nreq, request, result>>
    /\ ConcFrame

\* l.124-131: append to the list that was looked up
AppendPoint(th) ==
    /\ threads[th].pc = "append"
    /\ LET data  == threads[th].data
           point == StoredPoint(data, threads[th].anomalies)
       IN  tourist_history' =
              IF threads[th].list = list_id[data.tourist_id]
              THEN SetList(tourist_history, data.tourist_id,
                           Append(tourist_history[data.tourist_id], point))
              ELSE tourist_history
    /\ threads' = [threads EXCEPT ![th].pc = "truncate"]
    /\ UNCHANGED <<accepted, list_id, response, nreq, request, result>>
    /\ ConcFrame

\* l.137-163: the response; the point sent was accepted
Respond(th) ==
    LET data == threads[th].data
    IN  /\ response' = OkResponse(data, threads[th].anomalies)
        /\ accepted' = [accepted EXCEPT ![data.tourist_id] =
                           Append(@, StoredPoint(data, threads[th].anomalies))]
        /\ nreq' = nreq + 1

\* l.134-135, and the response
Truncate(th) ==
    /\ threads[th].pc = "truncate"
    /\ LET tourist_id == threads[th].data.tourist_id
       IN  /\ tourist_history' =
                 SetList(tourist_history, tourist_id, KeepLast(tourist_history[tourist_id]))
           /\ list_id' = [list_id EXCEPT ![tourist_id] =
                             IF Len(tourist_history[tourist_id]) > HistoryCap THEN @ + 1 ELSE @]
    /\ threads' = [threads EXCEPT ![th].pc = "done"]
    /\ Respond(th)
    /\ UNCHANGED <<request, result>>
    /\ ConcFrame

ConcNext ==
    \E th \in Threads :
        \/ Receive(th)
        \/ Lookup(th)
        \/ TestAbsent(th)
        \/ Create(th)
        \/ LoadList(th)
        \/ AppendPoint(th)
        \/ Truncate(th)

SpecConc == ConcInit /\ [][ConcNext]_vars

\* the point a handler that has returned has sent to the history
SentPoint(th) == StoredPoint(threads[th].data, threads[th].anomalies)

\* a handler has returned a response for a ping that the stored history does not
\* hold: the history holds the point fewer times than handlers have stored it
LostUpdate(th) ==
    /\ threads[th].pc = "done"
    /\ LET tourist_id == threads[th].data.tourist_id
           points     == tourist_history[tourist_id]
       IN  Cardinality({n \in 1..Len(points) : points[n] = SentPoint(th)})
              < Cardinality({o \in Threads : threads[o].pc = "done" /\ SentPoint(o) = SentPoint(th)})

\* C15: two check_anomaly requests for the same tourist that run concurrently can
\* leave a ping that one of them accepted out of the stored history once both have
\* returned; requests handled one after the other, or for different tourists, lose
\* nothing.
C15_LostUpdateNeedsOverlap ==
    \A th \in Threads :
        ((\A o \in Threads : ~Running(o)) /\ LostUpdate(th)) =>
            \E o \in Threads \ {th} :
                /\ threads[o].pc = "done"
                /\ threads[o].data.tourist_id = threads[th].data.tourist_id
                /\ threads[th].overlapped \/ threads[o].overlapped

\* both handlers have returned a response for tourist 1 and the ping of one of them
\* is not in the stored history
C15_Witness ==
    /\ \A th \in Threads : threads[th].pc = "done" /\ threads[th].data.tourist_id = 1
    /\ threads[1].data # threads[2].data
    /\ \E th \in Threads : LostUpdate(th)

(***************************************************************************)
(* analyze_batch under concurrent requests: every handler calls            *)
(* detector.analyze_tourist_data(df, use_ml=True) on the one shared        *)
(* detector, without a lock.  The position of a worker is its next         *)
(* statement on detector.scaler or detector.ml_model:                      *)
(*   "fit_scaler"   l.184  self.scaler.fit_transform(features)             *)
(*   "assign_model" l.187  self.ml_model = IsolationForest(...)            *)
(*   "fit_model"    l.193  self.ml_model.fit(features_scaled)              *)
(*   "check_none"   l.198  `if self.ml_model is None`                      *)
(*   "transform"    l.205  self.scaler.transform(features)                 *)
(*   "predict"      l.206  self.ml_model.predict(features_scaled)          *)
(*   "decision"     l.207  self.ml_model.decision_function(...)            *)
(* A worker remembers on which feature rows the scaler and the forest it   *)
(* read had been fitted.                                                   *)
(***************************************************************************)
BatchWorkers == {1, 2}

NotRead == [read |-> FALSE]

IdleWorker ==
    [pc |-> "idle", table |-> <<>>, features |-> <<>>, rules |-> <<>>,
     used_scaler |-> NotRead, used_model |-> NotRead, used_scores |-> NotRead,
     ml_failed |-> FALSE, overlapped |-> FALSE]

\* the batches the two requests carry: empty, a tourist standing still, a tourist
\* leaving the route
ConcurrentBatches ==
    {<<>>,
     <<Ping(1, OnRoute, Stamp("T", 0)), Ping(1, OnRoute, Stamp("T", 300))>>,
     <<Ping(1, OnRoute, Stamp("T", 0)), Ping(1, OffRoute, Stamp("T", 330))>>}

ConcBatchInit ==
    /\ tourist_history = [t \in {} |-> <<>>]
    /\ response = NoResponse
    /\ accepted = [t \in Tourists |-> <<>>]
    /\ reported = [t \in Tourists |-> {}]
    /\ nreq = 0
    /\ request = NoRequest
    /\ list_id = <<>>
    /\ threads = [w \in BatchWorkers |-> IdleWorker]
    /\ DetectorInit
    /\ df = <<>>
    /\ result = NoResult
    /\ sim = [i |-> 0]

Working(w) == threads[w].pc \notin {"idle", "done"}

BatchFrame == UNCHANGED <<serviceVars, sim, list_id>>

\* the worker returns: analyze_batch answers with the rule records and, unless the
\* pattern model failed or was skipped, with detections
Return(w, ml_failed) ==
    /\ threads' = [threads EXCEPT ![w] = [@ EXCEPT !.pc = "done", !.ml_failed = ml_failed]]
    /\ df' = threads[w].table
    /\ result' = [op |-> "analyze_tourist_data", fault |-> "none", use_ml |-> TRUE,
                  raised |-> FALSE, ml_failed |-> ml_failed, records |-> threads[w].rules]

\* l.234-244 and l.177-181: the rule loop and the feature rows, on the worker's own table
StartBatch(w) ==
    /\ threads[w].pc = "idle"
    /\ \E table \in ConcurrentBatches :
          threads' = [threads EXCEPT ![w] =
                         [@ EXCEPT !.pc = IF Len(prepare_ml_features(table)) = 0
                                          THEN "check_none" ELSE "fit_scaler",
                                   !.table = table,
                                   !.features = prepare_ml_features(table),
                                   !.rules = RuleLoop(table, unique_ids(table), 1, <<>>),
                                   !.overlapped = \E o \in BatchWorkers \ {w} : Working(o)]]
    /\ UNCHANGED <<detectorVars, df, result>>
    /\ BatchFrame

\* (mutant) a scaler that is fitted already is kept
FitScaler_KeepsFirst(sc, features) ==
    IF sc.fitted THEN sc ELSE [fitted |-> TRUE, X |-> features]

\* StandardScaler.fit: the parameters are those of the rows given
FitScaler(sc, features) == [fitted |-> TRUE, X |-> features]

\* l.184
FitScalerStep(w) ==
    /\ threads[w].pc = "fit_scaler"
    /\ scaler' = FitScaler(scaler, threads[w].features)
    /\ threads' = [threads EXCEPT ![w].pc = "assign_model"]
    /\ UNCHANGED <<ml_model, trained, df, result>>
    /\ BatchFrame

\* l.187-191
AssignModel(w) ==
    /\ threads[w].pc = "assign_model"
    /\ ml_model' = [state |-> "unfitted"]
    /\ threads' = [threads EXCEPT ![w].pc = "fit_model"]
    /\ UNCHANGED <<scaler, trained, df, result>>
    /\ BatchFrame

\* l.193: fits the forest that self.ml_model holds at this moment
FitModel(w) ==
    /\ threads[w].pc = "fit_model"
    /\ ml_model' = [state |-> "fitted", X |-> threads[w].features]
    /\ trained' = TRUE
    /\ threads' = [threads EXCEPT ![w].pc = "check_none"]
    /\ UNCHANGED <<scaler, df, result>>
    /\ BatchFrame

\* l.198-203
CheckNone(w) ==
    /\ threads[w].pc = "check_none"
    /\ IF ml_model.state = "None" \/ Len(threads[w].features) = 0
       THEN Return(w, FALSE)
       ELSE /\ threads' = [threads EXCEPT ![w].pc = "transform"]
            /\ UNCHANGED <<df, result>>
    /\ UNCHANGED detectorVars
    /\ BatchFrame

\* l.205
Transform(w) ==
    /\ threads[w].pc = "transform"
    /\ threads' = [threads EXCEPT ![w] =
                      [@ EXCEPT !.pc = "predict",
                                !.used_scaler = [read |-> TRUE, X |-> scaler.X]]]
    /\ UNCHANGED <<detectorVars, df, result>>
    /\ BatchFrame

\* l.206: NotFittedError on a forest that was assigned and is not fitted yet; the
\* except branch of analyze_tourist_data takes it
Predict(w) ==
    /\ threads[w].pc = "predict"
    /\ IF ml_model.state # "fitted"
       THEN Return(w, TRUE)
       ELSE /\ threads' = [threads EXCEPT ![w] =
                              [@ EXCEPT !.pc = "decision",
                                        !.used_model = [read |-> TRUE, X |-> ml_model.X]]]
            /\ UNCHANGED <<df, result>>
    /\ UNCHANGED detectorVars
    /\ BatchFrame

\* l.207-230
Decision(w) ==
    /\ threads[w].pc = "decision"
    /\ IF ml_model.state # "fitted"
       THEN Return(w, TRUE)
       ELSE /\ threads' = [threads EXCEPT ![w] =
                              [@ EXCEPT !.pc = "done",
                                        !.used_scores = [read |-> TRUE, X |-> ml_model.X]]]
            /\ df' = threads[w].table
            /\ result' = [op |-> "analyze_tourist_data", fault |-> "none", use_ml |-> TRUE,
                          raised |-> FALSE, ml_failed |-> FALSE, records |-> threads[w].rules]
    /\ UNCHANGED detectorVars
    /\ BatchFrame

ConcBatchNext ==
    \E w \in BatchWorkers :
        \/ StartBatch(w)
        \/ FitScalerStep(w)
        \/ AssignModel(w)
        \/ FitModel(w)
        \/ CheckNone(w)
        \/ Transform(w)
        \/ Predict(w)
        \/ Decision(w)

SpecConcBatch == ConcBatchInit /\ [][ConcBatchNext]_vars

\* the scaler or the forest a worker computed its detections with was fitted on
\* other feature rows than those of the worker's own table
ForeignSnapshot(w) ==
    \E used \in {threads[w].used_scaler, threads[w].used_model, threads[w].used_scores} :
        used.read /\ used.X # threads[w].features

\* C16: two analyze_batch requests that run concurrently can get one request's
\* pattern detections computed with a scaler or a model fitted on the other
\* request's input; this does not happen when one request starts after the other
\* has returned.
C16_ForeignSnapshotNeedsOverlap ==
    \A w \in BatchWorkers :
        ForeignSnapshot(w) =>
            \E o \in BatchWorkers \ {w} :
                /\ threads[o].pc # "idle"
                /\ threads[o].features # threads[w].features
                /\ threads[w].overlapped \/ threads[o].overlapped

\* both requests have returned, and the detections of one of them were computed
\* with the scaler and the forest fitted on the other's table
C16_Witness ==
    /\ \A w \in BatchWorkers : threads[w].pc = "done"
    /\ \E w \in BatchWorkers, o \in BatchWorkers :
          /\ w # o
          /\ ~threads[w].ml_failed
          /\ threads[w].used_scaler = [read |-> TRUE, X |-> threads[o].features]
          /\ threads[w].used_scores = [read |-> TRUE, X |-> threads[o].features]
          /\ threads[o].features # threads[w].features

(***************************************************************************)
(* The order in which detect_stop_anomaly walks the rows                   *)
(***************************************************************************)
\* the rows of one entity as detect_stop_anomaly walks them (l.50-51)
WalkedRows(table, tourist_id) == sort_values(RowsOf(table, tourist_id))

\* C17: whatever the order of the rows in the table and whichever of the two
\* accepted timestamp layouts each row uses, the time gap detect_stop_anomaly
\* computes for a consecutive pair is never negative.
C17_GapsNeverNegative ==
    result.op = "detect_stop_anomaly" =>
        LET tourist_data == WalkedRows(df, result.tourist_id)
        IN  \A i \in 2..Len(tourist_data) :
                TimeDiff(tourist_data[i - 1], tourist_data[i]) >= 0

(***************************************************************************)
(* The effect of check_single_point                                        *)
(***************************************************************************)
RuleTypes == {"stopped_too_long", "route_deviation"}

\* C18: a call of check_single_point (made on the detector, outside the request
\* handler that stores the ping afterwards) leaves the table its history was taken
\* from, the stored histories, the scaler and the pattern model as they were,
\* and every record it returns is a stop or a deviation record.
C18_CheckSinglePointFrame ==
    [][result'.op = "check_single_point" /\ nreq' = nreq =>
          /\ df' = df
          /\ result'.history \in {NoHistory, HistoryOf(Front(df'))}
          /\ tourist_history' = tourist_history
          /\ ml_model' = ml_model
          /\ scaler' = scaler
          /\ trained' = trained
          /\ \A k \in 1..Len(result'.records) :
                result'.records[k].anomaly_type \in RuleTypes]_vars

\* a call with a history that returned a stop record
C18_Witness ==
    /\ result.op = "check_single_point"
    /\ ~result.history.is_none
    /\ result.history.rows # <<>>
    /\ \E k \in 1..Len(result.records) : result.records[k].anomaly_type = "stopped_too_long"

(***************************************************************************)
(* Specification of the alignment of predictions and pings: a detector is  *)
(* trained on a table and then asked for the pattern records of the same   *)
(* table, as analyze_tourist_data does at l.249-250.  The tables hold up   *)
(* to MaxAlignRows pings of two tourists, in any order.                    *)
(***************************************************************************)
MaxAlignRows == 4

AlignPings ==
    {Ping(1, OnRoute, Stamp("T", 0)), Ping(1, OffRoute, Stamp("T", 300)),
     Ping(2, OnRoute, Stamp("T", 0)), Ping(2, OnRoute, Stamp("T", 300))}

AlignTables == SeqsUpTo(AlignPings, MaxAlignRows)

AlignInit ==
    /\ ServiceInit
    /\ DetectorInit
    /\ df \in AlignTables
    /\ result = NoResult
    /\ sim = [i |-> 0]

TrainOnTable ==
    /\ result = NoResult
    /\ LET out == train_ml_model(df, ml_model, scaler, "none")
       IN  /\ ml_model' = out.ml_model
           /\ scaler' = out.scaler
           /\ trained' = TrainingCompleted(df, ml_model, scaler, "none")
           /\ result' = [op |-> "train_ml_model", fault |-> "none", raised |-> out.raised,
                         records |-> <<>>]
    /\ UNCHANGED <<serviceVars, df, sim, threadVars>>

DetectOnTable ==
    /\ result.op = "train_ml_model"
    /\ \E labels \in LabelsOf(df) :
          LET out == detect_ml_anomalies(df, ml_model, scaler, "none", labels)
          IN  result' = [op |-> "detect_ml_anomalies", fault |-> "none", raised |-> out.raised,
                         labels |-> labels, records |-> out.records]
    /\ UNCHANGED <<serviceVars, detectorVars, df, sim, threadVars>>

AlignNext == TrainOnTable \/ DetectOnTable

SpecAlign == AlignInit /\ [][AlignNext]_vars

\* row k of the table belongs to a tourist that appears in the table before the
\* tourist t does
OfEarlierTourist(table, k, t) ==
    \E j \in 1..Len(table) :
        /\ table[j].tourist_id = table[k].tourist_id
        /\ \A m \in 1..Len(table) : table[m].tourist_id = t => j < m

\* row j comes before row k among the rows of the same tourist: by the timestamp
\* string, and by the place in the table when the strings are equal
EarlierOfSameTourist(table, j, k) ==
    /\ table[j].tourist_id = table[k].tourist_id
    /\ \/ StrLess(table[j].timestamp, table[k].timestamp)
       \/ table[j].timestamp = table[k].timestamp /\ j < k

\* the place of row k among the rows of its tourist
RankOf(table, k) == Cardinality({j \in 1..Len(table) : EarlierOfSameTourist(table, j, k)}) + 1

\* the number of feature rows of the tourists before the tourist of row k: their
\* pings, less one for each of them
FeaturesBefore(table, k) ==
    LET earlier == {j \in 1..Len(table) : OfEarlierTourist(table, j, table[k].tourist_id)}
    IN  Cardinality(earlier) - Cardinality({table[j].tourist_id : j \in earlier})

\* the index of the feature row built from row k, which is not the first of its tourist
FeatureIndex(table, k) == FeaturesBefore(table, k) + RankOf(table, k) - 1

\* the row just before row k among the rows of its tourist
PreviousOf(table, k) ==
    CHOOSE j \in 1..Len(table) :
        EarlierOfSameTourist(table, j, k) /\ RankOf(table, j) = RankOf(table, k) - 1

\* C19: the k-th feature row of prepare_ml_features is built from a ping that is
\* not the first of its tourist and the ping before it, the tourists taken in
\* order of first appearance and each tourist's pings in sorted order; there is
\* one feature row per ping less one per tourist; detect_ml_anomalies returns
\* one pattern record per prediction of -1, in the order of the feature rows,
\* located at the ping the feature row was built from, and none at a tourist's
\* first ping.
C19_PredictionsAligned ==
    (result.op = "detect_ml_anomalies" /\ ml_model.state = "fitted") =>
        LET features == prepare_ml_features(df)
            labels   == result.labels
            recs     == result.records
            I        == 1..Len(df)
            Later    == {k \in I : RankOf(df, k) >= 2}
            Flagged(f) == Cardinality({g \in 1..f : labels[g] = -1})
        IN  /\ ~result.raised
            /\ Len(features) = Len(df) - Cardinality({df[k].tourist_id : k \in I})
            /\ Len(labels) = Len(features)
            /\ \A k \in Later :
                  LET f == FeatureIndex(df, k)
                  IN  /\ f \in 1..Len(features)
                      /\ features[f] = FeatureRow(df[PreviousOf(df, k)], df[k])
                      /\ labels[f] = -1 =>
                            recs[Flagged(f)] = PatternRecord(df[k].tourist_id, df[k])
            /\ Len(recs) = Flagged(Len(labels))
            /\ \A k \in I \ Later :
                  (\A j \in Later : df[j] # df[k]) =>
                      \A n \in 1..Len(recs) : Loc(recs[n]) # Loc(df[k])

\* both tourists have two pings, given out of order and interleaved, and the
\* forest flagged the feature row of the second tourist only
C19_Witness ==
    /\ result.op = "detect_ml_anomalies"
    /\ ml_model.state = "fitted"
    /\ Len(df) = 4
    /\ df[1] = Ping(2, OnRoute, Stamp("T", 300))
    /\ df[2] = Ping(1, OffRoute, Stamp("T", 300))
    /\ df[3] = Ping(1, OnRoute, Stamp("T", 0))
    /\ df[4] = Ping(2, OnRoute, Stamp("T", 0))
    /\ result.labels = <<-1, 1>>
    /\ Len(result.records) = 1
    /\ Loc(result.records[1]) = Loc(df[1])

(***************************************************************************)
(* Specification of a detector with a past: any sequence of train_ml_model *)
(* and analyze_tourist_data calls, one after the other, on tables with     *)
(* different feature rows.  What a forest predicts is a function of the    *)
(* rows it and the scaler were fitted on and of the rows it is asked       *)
(* about: a call draws the predictions of the forest fitted on the very    *)
(* rows it is asked about (own) and those of any other forest (other).     *)
(***************************************************************************)
PriorTables == ConcurrentBatches \cup {<<Ping(2, OnRoute, Stamp("T", 0))>>}

Forests(table) == [own : LabelsOf(table), other : LabelsOf(table)]

\* l.205-206: the predictions for the feature rows, from the scaler and the
\* forest as they are
predict(model, sc, features, forest) ==
    IF /\ model.state = "fitted" /\ model.X = features
       /\ sc.fitted /\ sc.X = features
    THEN forest.own
    ELSE forest.other

\* analyze_tourist_data(df, use_ml=True) with the predictions of the forest that
\* the call leaves in self.ml_model
analyze_with_forest(table, model, sc, fault, forest) ==
    LET tr == train_ml_model(table, model, sc, fault)
    IN  analyze_tourist_data(table, TRUE, model, sc, fault,
                             predict(tr.ml_model, tr.scaler, prepare_ml_features(table), forest))

PriorInit ==
    /\ ServiceInit
    /\ DetectorInit
    /\ df = <<>>
    /\ result = NoResult
    /\ sim = [i |-> 0]

PriorTraining ==
    /\ \E table \in PriorTables, fault \in {"none", "to_datetime", "fit_transform", "fit"} :
          LET out == train_ml_model(table, ml_model, scaler, fault)
          IN  /\ df' = table
              /\ ml_model' = out.ml_model
              /\ scaler' = out.scaler
              /\ trained' = (trained \/ TrainingCompleted(table, ml_model, scaler, fault))
              /\ result' = [op |-> "train_ml_model", fault |-> fault, raised |-> out.raised,
                            records |-> <<>>]
    /\ MlUnchanged

AnalyzeAfterPrior ==
    /\ \E table \in PriorTables, fault \in Faults :
       \E forest \in Forests(table) :
          LET out == analyze_with_forest(table, ml_model, scaler, fault, forest)
          IN  /\ df' = table
              /\ ml_model' = out.ml_model
              /\ scaler' = out.scaler
              /\ trained' = (trained \/ (/\ ~RuleLoopRaises(table, fault)
                                          /\ TrainingCompleted(table, ml_model, scaler, fault)))
              /\ result' = [op |-> "analyze_tourist_data", fault |-> fault, use_ml |-> TRUE,
                            raised |-> out.raised, ml_failed |-> out.ml_failed,
                            forest |-> forest, before |-> [ml_model |-> ml_model, scaler |-> scaler],
                            records |-> out.records]
    /\ MlUnchanged

PriorNext == PriorTraining \/ AnalyzeAfterPrior

SpecPrior == PriorInit /\ [][PriorNext]_vars

\* what a detector that was never trained returns for the table
FreshAnalysis(table, fault, forest) ==
    analyze_with_forest(table, [state |-> "None"], [fitted |-> FALSE], fault, forest)

\* C20: with calls made one after the other, analyze_tourist_data(df, use_ml=True)
\* returns the records (and raises or not) that a detector never trained before
\* returns for the same df, whatever calls the detector served before: none, a
\* training on other data, or a training that failed.
C20_ResultDependsOnTableOnly ==
    result.op = "analyze_tourist_data" =>
        LET fresh == FreshAnalysis(df, result.fault, result.forest)
        IN  /\ result.records = fresh.records
            /\ result.raised = fresh.raised
            /\ result.ml_failed = fresh.ml_failed

\* a call on a detector whose forest was fitted on other rows, which returned a
\* pattern record although a forest fitted on other rows flags nothing
C20_Witness ==
    /\ result.op = "analyze_tourist_data"
    /\ result.fault = "none"
    /\ result.before.ml_model.state = "fitted"
    /\ result.before.ml_model.X # prepare_ml_features(df)
    /\ result.forest = [own |-> <<-1>>, other |-> <<1>>]
    /\ ml_anomalies(result.records) # {}

(***************************************************************************)
(* Isolation of the tourists in check_anomaly                              *)
(***************************************************************************)
\* the history a tourist has when only the tourist's own accepted pings are
\* counted: none before the first, the last 100 afterwards
OwnHistory(tourist_id) ==
    IF accepted[tourist_id] = <<>> THEN NoHistory
    ELSE HistoryOf(KeepLast(accepted[tourist_id]))

\* C21: a check_anomaly request for a tourist leaves the stored history of every
\* other tourist as it was (present or absent), and the anomalies returned are
\* those computed from the tourist's own earlier pings alone, so they do not
\* depend on what other tourists have submitted.
C21_TouristsAreIsolated ==
    [][nreq' = nreq + 1 =>
          LET data == request'
          IN  /\ \A other \in Tourists \ {data.tourist_id} :
                    /\ other \in DOMAIN tourist_history' <=> other \in DOMAIN tourist_history
                    /\ other \in DOMAIN tourist_history =>
                          tourist_history'[other] = tourist_history[other]
              /\ Validate(data) = "ok" =>
                    LET own == check_single_point(data.tourist_id, data.lat, data.lon,
                                                  data.timestamp, OwnHistory(data.tourist_id))
                    IN  /\ result'.records = own
                        /\ response' = OkResponse(data, own)]_vars

\* a tourist is answered with a stop record after another tourist has submitted
\* a ping, which is stored
C21_Witness ==
    /\ request.is_json
    /\ response.status = "anomaly"
    /\ \E k \in 1..Len(result.records) : result.records[k].anomaly_type = "stopped_too_long"
    /\ \E other \in Tourists \ {request.tourist_id} :
          /\ other \in DOMAIN tourist_history
          /\ accepted[other] # <<>>
          /\ tourist_history[other] = accepted[other]

====
